---------------------------- MODULE Spec2Model ----------------------------
(***************************************************************************)
(* A model of InvestmentGrowthCalculator (src/unnamed/part_001): the       *)
(* component's state (the useState cells), its event handlers, and the     *)
(* derived data of its useMemo hooks (randomFactors, baselineData,         *)
(* scenarioData).                                                          *)
(*                                                                         *)
(* Numbers.  JavaScript numbers are modelled in fixed point: a real x is   *)
(* the integer x * SCALE (four decimals), so that rounding to two decimals *)
(* (toFixed(2)) is a real operation and not the identity.  Values that the *)
(* pipeline computes (trajectory values, random factors) are records       *)
(* [t |-> "fin", v |-> n], or [t |-> "nan", v |-> 0] for NaN.              *)
(* years and randomSeedBase are plain integers.                            *)
(***************************************************************************)
EXTENDS Integers, Sequences, FiniteSets, TLC

VARIABLES
    initialAmount,     \* useState, line 134
    years,             \* line 135
    annualFees,        \* line 131
    inflationRate,     \* line 132
    enableRisk,        \* line 136
    crisisType,        \* line 137
    drawdown,          \* line 138
    recoveryYears,     \* line 139
    recoveryType,      \* line 140
    volatilityLevel,   \* line 141
    randomSeedBase,    \* line 144
    enableVolatility,  \* line 145
    assets,            \* line 148: the asset object, as the sequence of its
                       \* entries in Object.entries order
    selectedPreset,    \* line 149
    view,              \* what the last render computed (randomFactors,
                       \* scenarioData), or NotRendered
    rngState,          \* line 153: seed, the generator state of randomFactors, as
                       \* the last computation left it
    lastOp,            \* history: the handler that ran last, and its argument
    nOps,              \* history: how many handlers have run
    kept,              \* history: an earlier computation of randomFactors,
                       \* its inputs and its result, or NotKept
    inserted,          \* history: the keys of the asset object in the order
                       \* in which they were put into it
    memo               \* the three useMemo hooks (lines 152, 176, 197): the
                       \* dependencies and the value of the last computation
                       \* of each, or [set |-> FALSE] before the first render

config == <<initialAmount, years, annualFees, inflationRate, enableRisk,
            crisisType, drawdown, recoveryYears, recoveryType,
            volatilityLevel, randomSeedBase, enableVolatility>>

vars == <<initialAmount, years, annualFees, inflationRate, enableRisk,
          crisisType, drawdown, recoveryYears, recoveryType,
          volatilityLevel, randomSeedBase, enableVolatility,
          assets, selectedPreset, view, rngState, lastOp, nOps, kept,
          inserted, memo>>

---------------------------------------------------------------------------
(* Fixed point *)

\* One unit of the fixed-point representation is 1/SCALE: a hundredth of a cent.
SCALE == 100 * 100

\* The real n/d.
D(n, d) == (n * SCALE) \div d

Max(a, b) == IF a >= b THEN a ELSE b
Min(a, b) == IF a <= b THEN a ELSE b

---------------------------------------------------------------------------
(* Arithmetic.  F-operators work on fixed-point integers and keep every    *)
(* intermediate result inside 32 bits; N-operators lift them to JavaScript *)
(* numbers, with NaN and the infinities.                                   *)

Abs(a) == IF a < 0 THEN -a ELSE a

Sign(a) == IF a < 0 THEN -1 ELSE 1

\* a * b / c rounded to the nearest integer, for c > 0 and a >= 0, computed
\* without forming a * b.
MulDiv(a, b, c) == (a \div c) * b + ((a % c) * b + c \div 2) \div c

\* The product of two fixed-point numbers.
FMul(a, b) ==
    LET big == Max(Abs(a), Abs(b))
        small == Min(Abs(a), Abs(b))
    IN  Sign(a) * Sign(b) * MulDiv(big, small, SCALE)

\* The first n binary digits of r / b, for 0 <= r < b, by long division;
\* 2 * r is never formed when it would not fit.
RECURSIVE BinFrac(_, _, _, _)
BinFrac(r, b, n, acc) ==
    IF n = 0 THEN acc
    ELSE IF r >= b - r
         THEN BinFrac(r - (b - r), b, n - 1, 2 * acc + 1)
         ELSE BinFrac(2 * r, b, n - 1, 2 * acc)

\* The quotient of two fixed-point numbers, b # 0.
FDiv(a, b) ==
    LET n == Abs(a)
        d == Abs(b)
        frac == BinFrac(n % d, d, 17, 0)
    IN  Sign(a) * Sign(b) *
           ((n \div d) * SCALE + (frac * SCALE + 2 ^ 16) \div 2 ^ 17)

\* Math.pow(x, k) for an integer k >= 0, by repeated multiplication.
RECURSIVE FPow(_, _)
FPow(x, k) == IF k = 0 THEN SCALE ELSE FMul(FPow(x, k - 1), x)

\* The integer square root of n >= 0, digit by digit from bit b down.
RECURSIVE ISqrtFrom(_, _, _)
ISqrtFrom(n, r, b) ==
    IF b < 0 THEN r
    ELSE LET c == r + 2 ^ b
         IN  IF c <= n \div c THEN ISqrtFrom(n, c, b - 1)
                              ELSE ISqrtFrom(n, r, b - 1)

ISqrt(n) == IF n = 0 THEN 0 ELSE ISqrtFrom(n, 0, 15)

\* Math.sqrt(x) for a fixed-point x >= 0.
FSqrt(x) ==
    IF x <= 200000 THEN ISqrt(x * SCALE) ELSE 10 * ISqrt(x * 100)

\* floor(log2(n)) for an integer n >= 1
RECURSIVE Log2Floor(_)
Log2Floor(n) == IF n < 2 THEN 0 ELSE 1 + Log2Floor(n \div 2)

\* ln(m) for a fixed-point m in [1, 2), by the series
\* 2 (t + t^3/3 + t^5/5 + t^7/7 + t^9/9), t = (m - 1) / (m + 1).
LnMantissa(m) ==
    LET t == FDiv(m - SCALE, m + SCALE)
        t2 == FMul(t, t)
        t3 == FMul(t, t2)
        t5 == FMul(t3, t2)
        t7 == FMul(t5, t2)
        t9 == FMul(t7, t2)
    IN  2 * (t + t3 \div 3 + t5 \div 5 + t7 \div 7 + t9 \div 9)

\* ln(n), in fixed point, for an integer n >= 1: n = m * 2^k with m in
\* [1, 2), and ln(n) = k ln(2) + ln(m).
LnInt(n) ==
    LET k == Log2Floor(n)
        m == IF k >= 14 THEN ((n \div 2 ^ (k - 14)) * SCALE) \div 2 ^ 14
                        ELSE (n * 2 ^ (14 - k) * SCALE) \div 2 ^ 14
    IN  (k * 693147) \div 100 + LnMantissa(m)

\* cos(2 pi u) for a fixed-point u in [0, 1]: folded into the first quarter
\* turn, then 1 - x^2/2 + x^4/24 - x^6/720 + x^8/40320.
CosTurn(u) ==
    LET h == IF u > SCALE \div 2 THEN SCALE - u ELSE u
        q == IF h > SCALE \div 4 THEN SCALE \div 2 - h ELSE h
        x == FMul(q, 62832)
        x2 == FMul(x, x)
        x4 == FMul(x2, x2)
        x6 == FMul(x4, x2)
        x8 == FMul(x4, x4)
        c == SCALE - x2 \div 2 + x4 \div 24 - x6 \div 720 + x8 \div 40320
    IN  IF h > SCALE \div 4 THEN -c ELSE c

\* JavaScript numbers
Fin(n) == [t |-> "fin", v |-> n]
NaN == [t |-> "nan", v |-> 0]
Inf(sgn) == [t |-> "inf", v |-> sgn]

IsFin(x) == x.t = "fin"
IsNaN(x) == x.t = "nan"

NNeg(a) == IF IsNaN(a) THEN NaN ELSE [a EXCEPT !.v = -a.v]

NAdd(a, b) ==
    CASE IsNaN(a) \/ IsNaN(b) -> NaN
      [] IsFin(a) /\ IsFin(b) -> Fin(a.v + b.v)
      [] IsFin(a) -> b
      [] IsFin(b) -> a
      [] OTHER -> IF a.v = b.v THEN a ELSE NaN

NSub(a, b) == NAdd(a, NNeg(b))

NMul(a, b) ==
    CASE IsNaN(a) \/ IsNaN(b) -> NaN
      [] IsFin(a) /\ IsFin(b) -> Fin(FMul(a.v, b.v))
      [] OTHER -> IF a.v = 0 \/ b.v = 0 THEN NaN
                  ELSE Inf(Sign(a.v) * Sign(b.v))

NDiv(a, b) ==
    CASE IsNaN(a) \/ IsNaN(b) -> NaN
      [] IsFin(a) /\ IsFin(b) ->
            IF b.v # 0 THEN Fin(FDiv(a.v, b.v))
            ELSE IF a.v = 0 THEN NaN ELSE Inf(Sign(a.v))
      [] IsFin(b) -> Inf(Sign(a.v) * Sign(b.v))
      [] IsFin(a) -> Fin(0)
      [] OTHER -> NaN

\* a < b; every comparison with NaN is false.
NLt(a, b) ==
    CASE IsNaN(a) \/ IsNaN(b) -> FALSE
      [] IsFin(a) /\ IsFin(b) -> a.v < b.v
      [] IsFin(a) -> b.v > 0
      [] IsFin(b) -> a.v < 0
      [] OTHER -> a.v < b.v

NGt(a, b) == NLt(b, a)

\* Math.min as it would be if it returned its first argument.
MathMin_first(a, b) == a

\* Math.min(a, b)
MathMin(a, b) ==
    IF IsNaN(a) \/ IsNaN(b) THEN NaN ELSE IF NLt(b, a) THEN b ELSE a

\* parseFloat(x.toFixed(2)): the multiple of 0.01 nearest to x, a tie going
\* away from zero; NaN and the infinities print and parse as themselves.
ToFixed2(x) ==
    IF IsFin(x)
    THEN Fin(Sign(x.v) * ((Abs(x.v) + SCALE \div 200) \div (SCALE \div 100))
                       * (SCALE \div 100))
    ELSE x

---------------------------------------------------------------------------
(* Bounds of the model *)

\* Handlers run per behaviour.
MaxOps == 3


---------------------------------------------------------------------------
(* The asset object.  A JavaScript object enumerates the keys that are     *)
(* array indices first, in ascending numeric order, and then its other     *)
(* string keys in insertion order; it is modelled as the sequence of its   *)
(* entries in that order, each carrying its key in the field name.         *)

BaselineName == "Baseline (No Scenario)"

Entry(n, r, v, d, c, b, s) ==
    [name |-> n, return |-> r, volatility |-> v, drawdownImpact |-> d,
     color |-> c, isBaseline |-> b, crisisSensitivity |-> s]

defaultAssets ==
    << Entry(BaselineName, 0, 0, 0, "#000000", TRUE, 0),
       Entry("BIL (Short-Term Treasuries)", D(3, 1), D(2, 100), D(1, 10),
             "#8884d8", FALSE, D(1, 10)),
       Entry("KMLM (Managed Futures)", D(4, 1), D(8, 100), D(3, 10),
             "#82ca9d", FALSE, D(5, 10)),
       Entry("SPHD (High-Dividend/Low-Vol)", D(6, 1), D(12, 100), D(7, 10),
             "#ffc658", FALSE, D(8, 10)),
       Entry("SWPPX/SPX (S&P 500)", D(7, 1), D(15, 100), D(1, 1),
             "#ff7300", FALSE, D(1, 1)),
       Entry("PFF (Preferred Stocks)", D(4, 1), D(1, 10), D(8, 10),
             "#00C49F", FALSE, D(9, 10)),
       Entry("VUG (Large-Cap Growth)", D(7, 1), D(18, 100), D(12, 10),
             "#0088FE", FALSE, D(12, 10)) >>

\* Object.keys(obj)
Keys(obj) == {obj[i].name : i \in DOMAIN obj}

HasKey(obj, k) == \E i \in DOMAIN obj : obj[i].name = k

IndexOf(obj, k) == CHOOSE i \in DOMAIN obj : obj[i].name = k

\* obj[k], for a key of obj
Get(obj, k) == obj[IndexOf(obj, k)]

\* delete obj[k]
ObjDelete(obj, k) ==
    LET keep(e) == e.name # k IN SelectSeq(obj, keep)

\* The number a key stands for when it is the canonical decimal form of an
\* array index, and -1 for every other key.  Of such keys the model types
\* "7" and "12".
ArrayIndex(k) ==
    CASE k = "7" -> 7
      [] k = "12" -> 12
      [] OTHER -> -1

\* obj[e.name] = e: an existing key keeps its place and takes the new value.
\* A new key that is an array index is enumerated with the other array
\* indices, which come first in ascending numeric order; any other new key
\* goes to the end.
ObjSet(obj, e) ==
    IF HasKey(obj, e.name)
    THEN [obj EXCEPT ![IndexOf(obj, e.name)] = e]
    ELSE IF ArrayIndex(e.name) >= 0
    THEN LET before == Cardinality({i \in DOMAIN obj :
                          /\ ArrayIndex(obj[i].name) >= 0
                          /\ ArrayIndex(obj[i].name) < ArrayIndex(e.name)})
         IN  SubSeq(obj, 1, before) \o <<e>>
                \o SubSeq(obj, before + 1, Len(obj))
    ELSE Append(obj, e)

\* The keys in the order Object.entries enumerates them.
KeyOrder(obj) == [i \in DOMAIN obj |-> obj[i].name]

\* The order in which the keys of obj were put into it, when obj was built
\* by copying the entries of an object enumerated in the order base
\* ({...prev}) and then deleting and setting keys: the keys kept from the
\* copy in its order, then the keys set afterwards.
InsertedAfter(base, obj) ==
    LET copied(k) == k \in Keys(obj)
        set(k) == \A i \in DOMAIN base : base[i] # k
    IN  SelectSeq(base, copied) \o SelectSeq(KeyOrder(obj), set)

---------------------------------------------------------------------------
(* Defaults (lines 121-132) *)

defaultInitialAmount == 100000 * SCALE
defaultYears == 5
defaultEnableRisk == FALSE
defaultCrisisType == "NONE"
defaultDrawdown == 0
defaultRecoveryYears == 1 * SCALE
defaultRecoveryType == "V_SHAPED"
defaultVolatilityLevel == 1 * SCALE
defaultRandomSeedBase == 1
defaultEnableVolatility == FALSE
\* useState(0) and useState(2.5): these two have no default constant.
initialAnnualFees == 0
initialInflationRate == D(25, 10)

NotRendered == [rendered |-> FALSE]

NoOp == [op |-> "init", arg |-> ""]

NotKept == [set |-> FALSE]

Init ==
    /\ initialAmount = defaultInitialAmount
    /\ years = defaultYears
    /\ annualFees = initialAnnualFees
    /\ inflationRate = initialInflationRate
    /\ enableRisk = defaultEnableRisk
    /\ crisisType = defaultCrisisType
    /\ drawdown = defaultDrawdown
    /\ recoveryYears = defaultRecoveryYears
    /\ recoveryType = defaultRecoveryType
    /\ volatilityLevel = defaultVolatilityLevel
    /\ randomSeedBase = defaultRandomSeedBase
    /\ enableVolatility = defaultEnableVolatility
    /\ assets = defaultAssets
    /\ selectedPreset = ""
    /\ view = NotRendered
    /\ rngState = defaultRandomSeedBase
    /\ lastOp = NoOp
    /\ nOps = 0
    /\ kept = NotKept
    /\ inserted = KeyOrder(assets)
    /\ memo = [set |-> FALSE]


---------------------------------------------------------------------------
(* Event handlers.  Each is one action: the state updates of the handler.  *)
(* The data shown becomes stale with every handler; render recomputes it.  *)

\* History of the handler that ran, and the pending re-render.
Ran(op, arg) ==
    /\ lastOp' = [op |-> op, arg |-> arg]
    /\ nOps' = nOps + 1
    /\ view' = NotRendered
    /\ inserted' = IF assets' = assets THEN inserted
                   ELSE IF op = "reset" THEN KeyOrder(assets')
                   ELSE InsertedAfter(KeyOrder(assets), assets')
    /\ UNCHANGED <<rngState, kept, memo>>

(* What the user can enter.  The sliders' ranges are those of the source;  *)
(* of each range the model takes a few values.                             *)

\* Initial Investment, a free number input: negative, zero, a value with
\* more than two decimals (1234.5678), and whole amounts.
InitialAmountInputs == {-5 * SCALE, 0, 12345678, 50000 * SCALE}

\* Years, a free number input (clamped to 1..30 by the handler).
YearsInputs == {0, 1, 2, 3, 31}

\* Annual Fees slider: 0..3 step 0.1
AnnualFeesInputs == {0, D(15, 10), D(3, 1)}

\* Inflation Rate slider: 0..10 step 0.5
InflationRateInputs == {0, D(10, 1)}

CrisisTypes == {"NONE", "RISK_OFF", "RISING_RATES"}

RecoveryTypes == {"V_SHAPED", "U_SHAPED", "L_SHAPED"}

\* Market Drawdown slider: 0..50 step 1
DrawdownInputs == {D(10, 1), D(50, 1)}

\* Recovery Period slider: min 1, max years, step 0.5
RecoveryYearsInputs == {h * (SCALE \div 2) : h \in 2 .. 2 * years}

\* Volatility Level slider: 0..1.5 step 0.1
VolatilityLevelInputs == {0, D(5, 10)}

\* Random Seed button: Math.floor(Math.random() * 1000000)
SeedInputs == {0, 42, 999999}

\* Initial Investment onChange: setInitialAmount(Math.max(0, Number(value)))
onInitialAmountChange(v) ==
    /\ nOps < MaxOps
    /\ initialAmount' = Max(0, v)
    /\ UNCHANGED <<years, annualFees, inflationRate, enableRisk,
                   crisisType, drawdown, recoveryYears, recoveryType,
                   volatilityLevel, randomSeedBase, enableVolatility,
                   assets, selectedPreset>>
    /\ Ran("initialAmount", "")

MaxYearsAllowed == 30

\* Years onChange: setYears(Math.max(1, Math.min(30, Number(value))))
onYearsChange(n) ==
    /\ nOps < MaxOps
    /\ years' = Max(1, Min(MaxYearsAllowed, n))
    /\ UNCHANGED <<initialAmount, annualFees, inflationRate, enableRisk,
                   crisisType, drawdown, recoveryYears, recoveryType,
                   volatilityLevel, randomSeedBase, enableVolatility,
                   assets, selectedPreset>>
    /\ Ran("years", "")

\* Annual Fees slider
onAnnualFeesChange(v) ==
    /\ nOps < MaxOps
    /\ annualFees' = v
    /\ UNCHANGED <<initialAmount, years, inflationRate, enableRisk,
                   crisisType, drawdown, recoveryYears, recoveryType,
                   volatilityLevel, randomSeedBase, enableVolatility,
                   assets, selectedPreset>>
    /\ Ran("annualFees", "")

\* Inflation Rate slider
onInflationRateChange(v) ==
    /\ nOps < MaxOps
    /\ inflationRate' = v
    /\ UNCHANGED <<initialAmount, years, annualFees, enableRisk,
                   crisisType, drawdown, recoveryYears, recoveryType,
                   volatilityLevel, randomSeedBase, enableVolatility,
                   assets, selectedPreset>>
    /\ Ran("inflationRate", "")

\* Enable Risk Scenario switch: onCheckedChange(!checked)
onEnableRiskChange ==
    /\ nOps < MaxOps
    /\ enableRisk' = ~enableRisk
    /\ UNCHANGED <<initialAmount, years, annualFees, inflationRate,
                   crisisType, drawdown, recoveryYears, recoveryType,
                   volatilityLevel, randomSeedBase, enableVolatility,
                   assets, selectedPreset>>
    /\ Ran("enableRisk", "")

\* Crisis Type select, rendered only while enableRisk
onCrisisTypeChange(t) ==
    /\ nOps < MaxOps
    /\ enableRisk
    /\ crisisType' = t
    /\ UNCHANGED <<initialAmount, years, annualFees, inflationRate,
                   enableRisk, drawdown, recoveryYears, recoveryType,
                   volatilityLevel, randomSeedBase, enableVolatility,
                   assets, selectedPreset>>
    /\ Ran("crisisType", t)

\* Random Seed button, rendered only while enableRisk
onRandomSeedClick(s) ==
    /\ nOps < MaxOps
    /\ enableRisk
    /\ randomSeedBase' = s
    /\ UNCHANGED <<initialAmount, years, annualFees, inflationRate,
                   enableRisk, crisisType, drawdown, recoveryYears,
                   recoveryType, volatilityLevel, enableVolatility, assets,
                   selectedPreset>>
    /\ Ran("randomSeed", "")

\* Market Drawdown slider, rendered only while a crisis type is chosen
onDrawdownChange(v) ==
    /\ nOps < MaxOps
    /\ enableRisk
    /\ crisisType # "NONE"
    /\ drawdown' = v
    /\ UNCHANGED <<initialAmount, years, annualFees, inflationRate,
                   enableRisk, crisisType, recoveryYears, recoveryType,
                   volatilityLevel, randomSeedBase, enableVolatility,
                   assets, selectedPreset>>
    /\ Ran("drawdown", "")

\* Recovery Pattern select
onRecoveryTypeChange(t) ==
    /\ nOps < MaxOps
    /\ enableRisk
    /\ crisisType # "NONE"
    /\ recoveryType' = t
    /\ UNCHANGED <<initialAmount, years, annualFees, inflationRate,
                   enableRisk, crisisType, drawdown, recoveryYears,
                   volatilityLevel, randomSeedBase, enableVolatility,
                   assets, selectedPreset>>
    /\ Ran("recoveryType", t)

\* Recovery Period slider
onRecoveryYearsChange(v) ==
    /\ nOps < MaxOps
    /\ enableRisk
    /\ crisisType # "NONE"
    /\ recoveryYears' = v
    /\ UNCHANGED <<initialAmount, years, annualFees, inflationRate,
                   enableRisk, crisisType, drawdown, recoveryType,
                   volatilityLevel, randomSeedBase, enableVolatility,
                   assets, selectedPreset>>
    /\ Ran("recoveryYears", "")

\* Enable Volatility switch
onEnableVolatilityChange ==
    /\ nOps < MaxOps
    /\ enableVolatility' = ~enableVolatility
    /\ UNCHANGED <<initialAmount, years, annualFees, inflationRate,
                   enableRisk, crisisType, drawdown, recoveryYears,
                   recoveryType, volatilityLevel, randomSeedBase, assets,
                   selectedPreset>>
    /\ Ran("enableVolatility", "")

\* Volatility Level slider, rendered only while enableVolatility
onVolatilityLevelChange(v) ==
    /\ nOps < MaxOps
    /\ enableVolatility
    /\ volatilityLevel' = v
    /\ UNCHANGED <<initialAmount, years, annualFees, inflationRate,
                   enableRisk, crisisType, drawdown, recoveryYears,
                   recoveryType, randomSeedBase, enableVolatility, assets,
                   selectedPreset>>
    /\ Ran("volatilityLevel", "")

\* The preset table (lines 397-443).
scenarioPresets ==
    [p \in {"Nada", "Mild Recession", "Severe Crisis", "Rising Rates Shock",
            "Steady Growth"} |->
       CASE p = "Mild Recession" ->
              [enableRisk |-> TRUE, crisisType |-> "RISK_OFF",
               drawdown |-> D(20, 1), recoveryYears |-> D(2, 1),
               recoveryType |-> "V_SHAPED", enableVolatility |-> TRUE,
               volatilityLevel |-> D(1, 1)]
         [] p = "Severe Crisis" ->
              [enableRisk |-> TRUE, crisisType |-> "RISK_OFF",
               drawdown |-> D(40, 1), recoveryYears |-> D(4, 1),
               recoveryType |-> "U_SHAPED", enableVolatility |-> TRUE,
               volatilityLevel |-> D(15, 10)]
         [] p = "Rising Rates Shock" ->
              [enableRisk |-> TRUE, crisisType |-> "RISING_RATES",
               drawdown |-> D(25, 1), recoveryYears |-> D(3, 1),
               recoveryType |-> "L_SHAPED", enableVolatility |-> TRUE,
               volatilityLevel |-> D(12, 10)]
         [] OTHER ->   \* "Nada" and "Steady Growth"
              [enableRisk |-> FALSE, crisisType |-> "NONE",
               drawdown |-> 0, recoveryYears |-> D(1, 1),
               recoveryType |-> "V_SHAPED", enableVolatility |-> FALSE,
               volatilityLevel |-> D(1, 1)]]

PresetNames == DOMAIN scenarioPresets

\* applyScenarioPreset as it would be if it also reset the seed.
applyScenarioPreset_resetsSeed(presetName) ==
    LET preset == scenarioPresets[presetName] IN
    /\ nOps < MaxOps
    /\ enableRisk' = preset.enableRisk
    /\ crisisType' = preset.crisisType
    /\ drawdown' = preset.drawdown
    /\ recoveryYears' = preset.recoveryYears
    /\ recoveryType' = preset.recoveryType
    /\ enableVolatility' = preset.enableVolatility
    /\ volatilityLevel' = preset.volatilityLevel
    /\ selectedPreset' = presetName
    /\ randomSeedBase' = defaultRandomSeedBase
    /\ UNCHANGED <<initialAmount, years, annualFees, inflationRate, assets>>
    /\ Ran("preset", presetName)

\* Scenario Preset select: onValueChange = applyScenarioPreset
applyScenarioPreset(presetName) ==
    LET preset == scenarioPresets[presetName] IN
    /\ nOps < MaxOps
    /\ enableRisk' = preset.enableRisk
    /\ crisisType' = preset.crisisType
    /\ drawdown' = preset.drawdown
    /\ recoveryYears' = preset.recoveryYears
    /\ recoveryType' = preset.recoveryType
    /\ enableVolatility' = preset.enableVolatility
    /\ volatilityLevel' = preset.volatilityLevel
    /\ selectedPreset' = presetName
    /\ UNCHANGED <<initialAmount, years, annualFees, inflationRate,
                   randomSeedBase, assets>>
    /\ Ran("preset", presetName)

\* Reset button.  annualFees and inflationRate have no setter call here.
resetParameters ==
    /\ nOps < MaxOps
    /\ initialAmount' = defaultInitialAmount
    /\ years' = defaultYears
    /\ enableRisk' = defaultEnableRisk
    /\ crisisType' = defaultCrisisType
    /\ drawdown' = defaultDrawdown
    /\ recoveryYears' = defaultRecoveryYears
    /\ recoveryType' = defaultRecoveryType
    /\ volatilityLevel' = defaultVolatilityLevel
    /\ randomSeedBase' = defaultRandomSeedBase
    /\ enableVolatility' = defaultEnableVolatility
    /\ assets' = defaultAssets
    /\ selectedPreset' = ""
    /\ UNCHANGED <<annualFees, inflationRate>>
    /\ Ran("reset", "")

---------------------------------------------------------------------------
(* Handlers of the asset table *)

\* What the user can type into an asset's cells.
FieldInputs(field) ==
    CASE field = "return" -> {0, D(10, 1)}
      [] field = "volatility" -> {D(3, 10)}
      [] field = "drawdownImpact" -> {D(2, 1)}
      [] field = "crisisSensitivity" -> {0, D(2, 1)}
      [] field = "color" -> {"#123456"}

AssetFields ==
    {"return", "volatility", "drawdownImpact", "crisisSensitivity", "color"}

\* Names typed into the name cell: empty, the baseline's name, the name of a
\* default asset, the name handleAddAsset generates first, and a fresh one.
NameInputs ==
    {"", BaselineName, "SWPPX/SPX (S&P 500)", "New Asset 7", "Gold"}

\* The cells of a baseline row are read-only spans: only rows of assets that
\* are not the baseline have inputs and a remove button.
Editable(name) == HasKey(assets, name) /\ ~Get(assets, name).isBaseline

\* handleAssetChange(name, field, value)
handleAssetChange(name, field, value) ==
    /\ nOps < MaxOps
    /\ Editable(name)
    /\ assets' = ObjSet(assets, [Get(assets, name) EXCEPT ![field] = value])
    /\ UNCHANGED <<config, selectedPreset>>
    /\ Ran("edit", name)

\* The fields of the asset handleAddAsset adds (lines 379-386).
NewAsset(newName) ==
    Entry(newName, D(5, 1), D(1, 10), D(5, 10), "#999999", FALSE, D(1, 1))

\* `New Asset ${Object.keys(assets).length}`
NewAssetName(n) ==
    CASE n = 0 -> "New Asset 0" [] n = 1 -> "New Asset 1"
      [] n = 2 -> "New Asset 2" [] n = 3 -> "New Asset 3"
      [] n = 4 -> "New Asset 4" [] n = 5 -> "New Asset 5"
      [] n = 6 -> "New Asset 6" [] n = 7 -> "New Asset 7"
      [] n = 8 -> "New Asset 8" [] n = 9 -> "New Asset 9"
      [] n = 10 -> "New Asset 10" [] n = 11 -> "New Asset 11"
      [] n = 12 -> "New Asset 12"

\* Add Asset button
handleAddAsset ==
    LET newName == NewAssetName(Cardinality(Keys(assets))) IN
    /\ nOps < MaxOps
    /\ assets' = ObjSet(assets, NewAsset(newName))
    /\ UNCHANGED <<config, selectedPreset>>
    /\ Ran("add", newName)

\* handleRemoveAsset as it would be without its isBaseline check.
handleRemoveAsset_unguarded(name) ==
    /\ nOps < MaxOps
    /\ HasKey(assets, name)
    /\ assets' = ObjDelete(assets, name)
    /\ UNCHANGED <<config, selectedPreset>>
    /\ Ran("remove", name)

\* handleRemoveAsset(name).  The table wires it to the rows that are not the
\* baseline; the function itself is defined for every key.
handleRemoveAsset(name) ==
    /\ nOps < MaxOps
    /\ HasKey(assets, name)
    /\ assets' = IF Get(assets, name).isBaseline
                 THEN assets
                 ELSE ObjDelete(assets, name)
    /\ UNCHANGED <<config, selectedPreset>>
    /\ Ran("remove", name)

\* Name cell onChange (lines 791-800): delete updated[name]; then
\* updated[newName] = oldAsset.  onChange fires when the text changes.
onNameChange(name, newName) ==
    LET oldAsset == Get(assets, name) IN
    /\ nOps < MaxOps
    /\ Editable(name)
    /\ newName # name
    /\ assets' = ObjSet(ObjDelete(assets, name),
                        [oldAsset EXCEPT !.name = newName])
    /\ UNCHANGED <<config, selectedPreset>>
    /\ Ran("rename", name)

---------------------------------------------------------------------------

Next ==
    \/ \E v \in InitialAmountInputs : onInitialAmountChange(v)
    \/ \E n \in YearsInputs : onYearsChange(n)
    \/ \E v \in AnnualFeesInputs : onAnnualFeesChange(v)
    \/ \E v \in InflationRateInputs : onInflationRateChange(v)
    \/ onEnableRiskChange
    \/ \E t \in CrisisTypes : onCrisisTypeChange(t)
    \/ \E s \in SeedInputs : onRandomSeedClick(s)
    \/ \E v \in DrawdownInputs : onDrawdownChange(v)
    \/ \E t \in RecoveryTypes : onRecoveryTypeChange(t)
    \/ \E v \in RecoveryYearsInputs : onRecoveryYearsChange(v)
    \/ onEnableVolatilityChange
    \/ \E v \in VolatilityLevelInputs : onVolatilityLevelChange(v)
    \/ \E p \in PresetNames : applyScenarioPreset(p)
    \/ resetParameters
    \/ \E name \in Keys(assets), field \in AssetFields :
          \E value \in FieldInputs(field) :
             handleAssetChange(name, field, value)
    \/ handleAddAsset
    \/ \E name \in Keys(assets) : handleRemoveAsset(name)
    \/ \E name \in Keys(assets), newName \in NameInputs :
          onNameChange(name, newName)

Spec == Init /\ [][Next]_vars


---------------------------------------------------------------------------
(* randomFactors (lines 152-174) *)

LcgMultiplier == 16807
LcgModulus == 2147483647
UniformDivisor == 2147483646

\* seed = (seed * 16807) % 2147483647.  The product is exact in a double;
\* here it is formed by Schrage's decomposition, which gives the same
\* remainder without leaving 32 bits.
seededRandom(seed) ==
    LET q == LcgModulus \div LcgMultiplier
        r == LcgModulus % LcgMultiplier
        t == LcgMultiplier * (seed % q) - r * (seed \div q)
    IN  IF t < 0 THEN t + LcgModulus ELSE t

\* Math.sqrt(-2 * Math.log(u1)) * Math.cos(2 * Math.PI * u2), where
\* u = (seed - 1) / 2147483646 for the seeds s1, s2 of the two draws.
\* u1 < 0 (seed 0) makes the logarithm NaN; u1 = 0 makes it -Infinity.
BoxMuller(s1, s2) ==
    LET lnU1 == Min(0, LnInt(s1 - 1) - LnInt(UniformDivisor))
        u2 == FDiv(s2 - 1, UniformDivisor)
        cosine == Fin(CosTurn(Max(0, u2)))
    IN  IF s1 - 1 < 0 THEN NaN
        ELSE IF s1 - 1 = 0 THEN NMul(Inf(1), cosine)
        ELSE NMul(Fin(FSqrt(-2 * lnU1)), cosine)

\* normalRandom(): two draws; the value and the seed left behind.
normalRandom(seed) ==
    LET s1 == seededRandom(seed)
        s2 == seededRandom(s1)
    IN  [value |-> BoxMuller(s1, s2), seed |-> s2]

\* Array(n).fill(0).map(() => normalRandom() * volatility * volatilityLevel)
\* from seed on: the array, and the seed left behind.
RECURSIVE FactorArray(_, _, _, _)
FactorArray(n, seed, volatility, acc) ==
    IF n = 0 THEN [arr |-> acc, seed |-> seed]
    ELSE LET f(d) == NMul(NMul(d.value, Fin(volatility)),
                          Fin(volatilityLevel))
             step == {[arr |-> Append(acc, f(d)), seed |-> d.seed] :
                         d \in {normalRandom(seed)}}
         IN  CHOOSE rest \in {FactorArray(n - 1, s.seed, volatility, s.arr) :
                                 s \in step} : TRUE

\* The forEach over Object.entries(assets), from entry i and seed on.
RECURSIVE FactorsFrom(_, _, _)
FactorsFrom(i, seed, acc) ==
    IF i > Len(assets) THEN acc
    ELSE IF assets[i].isBaseline
         THEN FactorsFrom(i + 1, seed,
                 Append(acc, [name |-> assets[i].name,
                              arr |-> [j \in 1 .. years + 1 |-> Fin(0)]]))
         ELSE LET step ==
                      {[acc |-> Append(acc, [name |-> assets[i].name,
                                             arr |-> a.arr]),
                        seed |-> a.seed] :
                          a \in {FactorArray(years + 1, seed,
                                             assets[i].volatility, <<>>)}}
              IN  CHOOSE rest \in {FactorsFrom(i + 1, s.seed, s.acc) :
                                      s \in step} : TRUE

\* initialSeed as it would be if the generator kept its state from one
\* computation to the next.
initialSeed_carried == rngState

\* line 153: let seed = randomSeedBase
initialSeed == randomSeedBase

\* randomFactors: the entries name -> array (index y at place y + 1).
randomFactors == FactorsFrom(1, initialSeed, <<>>)

\* The generator state after n calls of seededRandom from s on.  (State 0
\* is a fixed point of line 155: the calls that remain leave it as it is.)
RECURSIVE SeedAfter(_, _)
SeedAfter(s, n) ==
    IF n = 0 \/ s = 0 THEN s
    ELSE IF n = 1 THEN seededRandom(s)
    ELSE CHOOSE last \in {SeedAfter(mid, n - n \div 2) :
                              mid \in {SeedAfter(s, n \div 2)}} : TRUE

\* Calls of seededRandom in one computation of randomFactors: two for each
\* of the years + 1 factors of each asset that is not the baseline.
NumDraws ==
    2 * (years + 1) * Cardinality({i \in DOMAIN assets : ~assets[i].isBaseline})

\* The four inputs of randomFactors (its dependency list, line 174).
FactorInputs ==
    [randomSeedBase |-> randomSeedBase, years |-> years,
     volatilityLevel |-> volatilityLevel, assets |-> assets]

\* useMemo compares each dependency with its value at the last computation
\* and computes again when one differs.  (React compares assets by
\* reference; every handler that sets assets sets a new object, and an equal
\* object gives an equal result.)
randomFactorsChanged == ~memo.set \/ memo.factorInputs # FactorInputs

\* const randomFactors = useMemo(..., [...]): what the hook returns in the
\* render of the current state.
useMemoRandomFactors ==
    IF randomFactorsChanged THEN randomFactors ELSE memo.factors

\* randomFactors[name][y]
Factor(name, y) == Get(randomFactors, name).arr[y + 1]

---------------------------------------------------------------------------
(* baselineData (lines 176-195) *)

\* The keys of a data point (besides the label year): the baseline's fixed
\* key, and the keys of the assets.
DataKeys == {BaselineName} \cup Keys(assets)

\* IsScenarioAsset as it would be if the loops did not skip the baseline.
IsScenarioAsset_noSkip(name) == HasKey(assets, name)

\* The assets the loops do not skip.
IsScenarioAsset(name) == HasKey(assets, name) /\ ~Get(assets, name).isBaseline

\* value after the loop "value *= 1 + asset.return / 100", run y times
RECURSIVE Compound(_, _, _)
Compound(value, return, y) ==
    IF y = 0 THEN value
    ELSE FMul(Compound(value, return, y - 1), SCALE + FDiv(return, 100 * SCALE))

\* baselineValue as it would be without the rounding of line 190.
baselineValue_unrounded(name, yearIndex) ==
    IF IsScenarioAsset(name)
    THEN Fin(Compound(initialAmount, Get(assets, name).return, yearIndex))
    ELSE ToFixed2(Fin(initialAmount))

\* dataPoint[name] of year yearIndex
baselineValue(name, yearIndex) ==
    IF IsScenarioAsset(name)
    THEN ToFixed2(Fin(Compound(initialAmount, Get(assets, name).return,
                               yearIndex)))
    ELSE ToFixed2(Fin(initialAmount))

baselineData ==
    [yearIndex \in 0 .. years |-> [name \in DataKeys |->
        baselineValue(name, yearIndex)]]

\* The dependency list of baselineData (line 195).
BaselineInputs ==
    [initialAmount |-> initialAmount, years |-> years, assets |-> assets]

\* const baselineData = useMemo(..., [...])
useMemoBaselineData ==
    IF ~memo.set \/ memo.baselineInputs # BaselineInputs
    THEN baselineData
    ELSE memo.baseline

---------------------------------------------------------------------------
(* scenarioData (lines 197-342) *)

\* JSON.parse(JSON.stringify(x)) of a number: a finite number comes back as
\* it was; NaN and the infinities become null, which arithmetic reads as 0.
JsonCopy(x) == IF IsFin(x) THEN x ELSE Fin(0)

combinedAnnualDrag == FDiv(annualFees + inflationRate, 100 * SCALE)

\* x / Math.pow(1 + combinedAnnualDrag, y)
Dragged(x, y) == NDiv(x, Fin(FPow(SCALE + combinedAnnualDrag, y)))

\* scenario[yearIndex][name] after the drag loop (lines 202-207)
afterDrag(name, yearIndex) ==
    LET copied == JsonCopy(useMemoBaselineData[yearIndex][name])
    IN  IF yearIndex >= 1 /\ IsScenarioAsset(name)
        THEN Dragged(copied, yearIndex)
        ELSE copied

\* The guard of the crisis block as it would be if it tested the type only.
crisisActive_typeOnly == crisisType # "NONE"

\* The guard of the crisis block as it would be if it tested enableRisk only.
crisisActive_riskOnly == enableRisk

\* line 209
crisisActive == enableRisk /\ crisisType # "NONE"

\* asset.crisisSensitivity || 1
crisisSensitivityOf(asset) ==
    IF asset.crisisSensitivity = 0 THEN SCALE ELSE asset.crisisSensitivity

drawdownImpactDecimal(asset) ==
    FMul(FMul(FDiv(drawdown, 100 * SCALE), asset.drawdownImpact),
         crisisSensitivityOf(asset))

permanentDamageRatio(asset) ==
    LET baseDamage == FMul(drawdownImpactDecimal(asset), D(4, 10))
        sensitivityAdjustedDamage ==
            FMul(baseDamage, crisisSensitivityOf(asset))
        ratesSensitivity ==
            Min(FMul(D(15, 10), crisisSensitivityOf(asset)), SCALE)
    IN  CASE crisisType = "RISK_OFF" -> D(90, 100) - sensitivityAdjustedDamage
          [] crisisType = "RISING_RATES" ->
                D(85, 100) - FMul(sensitivityAdjustedDamage, ratesSensitivity)
          [] OTHER -> D(95, 100) - sensitivityAdjustedDamage

\* line 245-246
recoveryTarget(asset, y) ==
    NMul(Dragged(useMemoBaselineData[y][asset.name], y),
         Fin(permanentDamageRatio(asset)))

\* Math.pow(progress, exponent) for the three exponents of line 252-256
recoveryFactor(progress) ==
    CASE recoveryType = "V_SHAPED" -> FSqrt(progress)
      [] recoveryType = "U_SHAPED" -> FMul(progress, FSqrt(progress))
      [] OTHER -> FMul(FMul(progress, progress), progress)

\* capAtTarget as it would be without the cap.
capAtTarget_uncapped(value, target) == value

\* lines 268-270: if (scenario[y][name] > recoveryTarget) it is set to the
\* target.
capAtTarget(value, target) == IF NGt(value, target) THEN target ELSE value

\* scenario[y][name] when the crisis loop of the asset has run (lines 234-272)
RECURSIVE crisisValue(_, _)
crisisValue(asset, y) ==
    LET name == asset.name
        reducedReturn == FMul(asset.return, permanentDamageRatio(asset))
        drawdownValue == crisisValue(asset, 1)
        target == recoveryTarget(asset, y)
        progress == FDiv((y - 1) * SCALE, recoveryYears)
        grown == NMul(crisisValue(asset, y - 1),
                      Fin(SCALE + FDiv(reducedReturn, 100 * SCALE)))
    IN  IF y = 0 THEN afterDrag(name, 0)
        ELSE IF y = 1
        THEN NMul(afterDrag(name, 1),
                  Fin(SCALE - drawdownImpactDecimal(asset)))
        ELSE IF y * SCALE <= recoveryYears + SCALE
        THEN MathMin(NAdd(drawdownValue,
                          NMul(NSub(target, drawdownValue),
                               Fin(recoveryFactor(progress)))),
                     target)
        ELSE capAtTarget(grown, target)

\* scenario[yearIndex][name] after the crisis block (lines 209-274)
afterCrisis(name, yearIndex) ==
    IF crisisActive /\ IsScenarioAsset(name)
    THEN crisisValue(Get(assets, name), yearIndex)
    ELSE afterDrag(name, yearIndex)

\* line 277
volatilityActive == enableVolatility

\* withVolatility as it would be if the loop of line 281 started at year 0.
withVolatility_fromYear0(value, factor, name, yearIndex) ==
    IF volatilityActive /\ IsScenarioAsset(name)
    THEN ToFixed2(NMul(value, NAdd(Fin(SCALE), factor)))
    ELSE value

\* lines 281-286: value, the entry of scenario, times 1 + factor, the entry of
\* randomFactors, rounded; only for years 1..years of assets that are not the
\* baseline, and only when the volatility block runs.
withVolatility(value, factor, name, yearIndex) ==
    IF volatilityActive /\ yearIndex >= 1 /\ IsScenarioAsset(name)
    THEN ToFixed2(NMul(value, NAdd(Fin(SCALE), factor)))
    ELSE value

\* scenario as the crisis block leaves it (line 275), before the volatility
\* block.
beforeVolatility ==
    [yearIndex \in 0 .. years |-> [name \in DataKeys |->
        afterCrisis(name, yearIndex)]]

\* scenarioData.data: the volatility block applied to what the crisis block
\* left, with the factors of randomFactors.
scenarioData ==
    LET scenario == beforeVolatility
        applied(factors) ==
            [yearIndex \in 0 .. years |-> [name \in DataKeys |->
                withVolatility(scenario[yearIndex][name],
                               IF HasKey(factors, name)
                               THEN Get(factors, name).arr[yearIndex + 1]
                               ELSE Fin(0),
                               name, yearIndex)]]
    IN  CHOOSE data \in {applied(factors) :
                            factors \in {useMemoRandomFactors}} :
           data = data

\* Math.max(a, b)
MathMax(a, b) ==
    IF IsNaN(a) \/ IsNaN(b) THEN NaN ELSE IF NGt(b, a) THEN b ELSE a

\* The loop of lines 309-316 over scenario, from year y on, with the peak and
\* the maxDrawdown reached so far.
RECURSIVE DrawdownScan(_, _, _, _, _)
DrawdownScan(scenario, name, y, peak, maxDrawdown) ==
    IF y > years THEN maxDrawdown
    ELSE LET currentValue == scenario[y][name]
             newPeak == IF NGt(currentValue, peak) THEN currentValue ELSE peak
             dd == NMul(NDiv(NSub(newPeak, currentValue), newPeak),
                        Fin(100 * SCALE))
             step == {[peak |-> newPeak,
                       maxDrawdown |-> MathMax(maxDrawdown, dd)]}
         IN  CHOOSE rest \in {DrawdownScan(scenario, name, y + 1, s.peak,
                                           s.maxDrawdown) : s \in step} : TRUE

\* summaryMetrics[name].maxDrawdown (lines 307-316, 321)
maxDrawdownOf(scenario, name) ==
    ToFixed2(DrawdownScan(scenario, name, 1, scenario[0][name], Fin(0)))

\* summaryMetrics (lines 291-323).  Of the three metrics of an asset only
\* maxDrawdown is represented; cagr and volatility feed nothing else.
summaryMetrics(scenario) ==
    [name \in {k \in Keys(assets) : IsScenarioAsset(k)} |->
        [maxDrawdown |-> maxDrawdownOf(scenario, name)]]

\* ScenarioInputs as it would be if the list did not name annualFees and
\* inflationRate.
ScenarioInputs_withoutDrag ==
    [enableRisk |-> enableRisk, crisisType |-> crisisType,
     drawdown |-> drawdown, recoveryYears |-> recoveryYears,
     recoveryType |-> recoveryType, enableVolatility |-> enableVolatility,
     years |-> years, assets |-> assets]

\* The dependency list of scenarioData (lines 326-342) without its entries
\* baselineData and randomFactors, which change when they are computed
\* again.
ScenarioInputs ==
    [enableRisk |-> enableRisk, crisisType |-> crisisType,
     drawdown |-> drawdown, recoveryYears |-> recoveryYears,
     recoveryType |-> recoveryType, enableVolatility |-> enableVolatility,
     years |-> years, assets |-> assets, annualFees |-> annualFees,
     inflationRate |-> inflationRate,
     drawdownImpacts |-> [i \in DOMAIN assets |-> assets[i].drawdownImpact],
     returns |-> [i \in DOMAIN assets |-> assets[i].return],
     volatilities |-> [i \in DOMAIN assets |-> assets[i].volatility]]

\* const scenarioData = useMemo(..., [...]): computed again when
\* baselineData or randomFactors is a new object or another dependency
\* changed, and then { data: scenario, metrics: summaryMetrics } (line 325),
\* with scenario as the crisis block left it.
useMemoScenarioData ==
    IF \/ ~memo.set
       \/ memo.baselineInputs # BaselineInputs
       \/ randomFactorsChanged
       \/ memo.scenarioInputs # ScenarioInputs
    THEN CHOOSE result \in {[data |-> scenario,
                             metrics |-> summaryMetrics(scenario),
                             beforeVolatility |-> beforeVolatility] :
                               scenario \in {scenarioData}} : TRUE
    ELSE memo.scenario

\* The render that follows a state change: the three hooks run, each
\* computing again when a dependency changed, and scenarioData is handed to
\* the chart and the metrics table.
render ==
    /\ ~view.rendered
    /\ \E factors \in {useMemoRandomFactors},
          baseline \in {useMemoBaselineData},
          scenario \in {useMemoScenarioData} :
          /\ memo' = [set |-> TRUE,
                      factorInputs |-> FactorInputs, factors |-> factors,
                      baselineInputs |-> BaselineInputs,
                      baseline |-> baseline,
                      scenarioInputs |-> ScenarioInputs,
                      scenario |-> scenario]
          /\ view' = [rendered |-> TRUE,
                      factors |-> factors,
                      beforeVolatility |-> scenario.beforeVolatility,
                      data |-> scenario.data,
                      metrics |-> scenario.metrics]
    /\ rngState' = IF randomFactorsChanged
                   THEN SeedAfter(initialSeed, NumDraws)
                   ELSE rngState
    /\ kept' = IF kept.set /\ kept.inputs # FactorInputs
               THEN [kept EXCEPT !.between = TRUE]
               ELSE kept
    /\ UNCHANGED <<config, assets, selectedPreset, lastOp, nOps,
                   inserted>>

\* History: the computation just made is remembered, to be compared with a
\* later one.
keep ==
    /\ view.rendered
    /\ ~kept.set
    /\ kept' = [set |-> TRUE, between |-> FALSE, inputs |-> FactorInputs,
                factors |-> view.factors]
    /\ UNCHANGED <<config, assets, selectedPreset, view, rngState, lastOp,
                   nOps, inserted, memo>>

---------------------------------------------------------------------------
(* Properties of the handlers *)

\* The entries of obj other than the one keyed k.
Others(obj, k) == {obj[i] : i \in {j \in DOMAIN obj : obj[j].name # k}}

\* C4: handleAddAsset inserts under a name that was not a key: the number of
\* assets grows by exactly one and every existing entry is kept as it was.
C4_AddInsertsFresh ==
    [][lastOp'.op = "add" =>
          /\ ~HasKey(assets, lastOp'.arg)
          /\ Len(assets') = Len(assets) + 1
          /\ \A i \in DOMAIN assets : assets'[i] = assets[i]]_vars

\* C5: a rename never overwrites or removes another asset: the number of
\* assets is unchanged and every other asset keeps its key and fields.
C5_RenameKeepsOthers ==
    [][lastOp'.op = "rename" =>
          /\ Len(assets') = Len(assets)
          /\ Others(assets, lastOp'.arg) \subseteq {assets'[i] : i \in DOMAIN assets'}
          /\ \A i \in DOMAIN assets' : assets'[i].name # ""]_vars

\* C6: in every reachable state exactly one asset has isBaseline = TRUE, it
\* is keyed "Baseline (No Scenario)", and its numeric fields are all 0.
C6_ExactlyOneBaseline ==
    /\ Cardinality({i \in DOMAIN assets : assets[i].isBaseline}) = 1
    /\ \A i \in DOMAIN assets :
          assets[i].isBaseline =>
             /\ assets[i].name = BaselineName
             /\ assets[i].return = 0
             /\ assets[i].volatility = 0
             /\ assets[i].drawdownImpact = 0
             /\ assets[i].crisisSensitivity = 0

\* C7: handleRemoveAsset with the baseline asset's name leaves the asset map
\* unchanged; with another asset's name it removes exactly that entry and
\* every other entry keeps its key, its fields and its place in the order.
C7_RemoveRejectsBaseline ==
    [][lastOp'.op = "remove" =>
          LET name == lastOp'.arg IN
          IF Get(assets, name).isBaseline
          THEN assets' = assets
          ELSE /\ ~HasKey(assets', name)
               /\ Len(assets') = Len(assets) - 1
               /\ \A i \in DOMAIN assets' :
                     assets'[i] = IF i < IndexOf(assets, name)
                                  THEN assets[i] ELSE assets[i + 1]]_vars

\* C7 witness: an asset has been removed, and then a removal of the baseline
\* was asked for and rejected.
C7_Witness ==
    /\ lastOp = [op |-> "remove", arg |-> BaselineName]
    /\ Len(assets) = Len(defaultAssets) - 1
    /\ Get(assets, BaselineName).isBaseline

\* C8: after resetParameters the asset map and every ScenarioConfig field
\* have the values of the initial state.
C8_ResetRestoresAll ==
    lastOp.op = "reset" =>
       /\ assets = defaultAssets
       /\ initialAmount = defaultInitialAmount
       /\ years = defaultYears
       /\ annualFees = initialAnnualFees
       /\ inflationRate = initialInflationRate
       /\ enableRisk = defaultEnableRisk
       /\ crisisType = defaultCrisisType
       /\ drawdown = defaultDrawdown
       /\ recoveryYears = defaultRecoveryYears
       /\ recoveryType = defaultRecoveryType
       /\ enableVolatility = defaultEnableVolatility
       /\ volatilityLevel = defaultVolatilityLevel
       /\ randomSeedBase = defaultRandomSeedBase

C10_RecoveryWithinHorizon ==
    /\ 1 * SCALE <= recoveryYears
    /\ recoveryYears <= years * SCALE

---------------------------------------------------------------------------
(* The pipeline as a function of its inputs: the configurations and asset  *)
(* tables below are states the handlers can produce; render runs on each.  *)

\* The simulated horizon of these configurations.
MaxYears == 4

\* 0, an amount with four decimals (1234.5678), and a whole amount.
EngineAmounts == {0, 12345678, 50000 * SCALE}

\* <<annualFees, inflationRate>>
EngineDrags == {<<0, 0>>, <<D(1, 1), D(25, 10)>>}

\* <<enableRisk, crisisType, drawdown, recoveryYears, recoveryType>>
EngineRisks ==
    ({FALSE} \X {"NONE", "RISK_OFF"} \X {D(20, 1)} \X {D(1, 1), D(4, 1)}
         \X {"V_SHAPED"})
    \cup
    {<<TRUE, "NONE", D(20, 1), D(1, 1), "V_SHAPED">>}
    \cup
    ({TRUE} \X {"RISK_OFF", "RISING_RATES"} \X {D(20, 1)}
         \X {D(1, 1), D(15, 10), D(4, 1)} \X RecoveryTypes)
    \cup
    ({TRUE} \X {"RISK_OFF"} \X {D(50, 1)} \X {D(2, 1)} \X RecoveryTypes)

\* <<enableVolatility, volatilityLevel, randomSeedBase>>
EngineVolatilities ==
    {<<FALSE, D(1, 1), 1>>, <<FALSE, D(15, 10), 42>>,
     <<TRUE, D(1, 1), 1>>, <<TRUE, D(15, 10), 42>>,
     <<TRUE, 0, 1>>, <<TRUE, D(1, 1), 0>>}

\* Asset tables: the baseline with one default asset; with a default asset
\* and an added one; with an asset edited to crisisSensitivity 0; with an
\* asset edited to the largest sensitivities.
EngineAssets ==
    { <<defaultAssets[1], defaultAssets[5]>>,
      <<defaultAssets[1], defaultAssets[2], NewAsset("New Asset 2")>>,
      <<defaultAssets[1],
        [defaultAssets[4] EXCEPT !.crisisSensitivity = 0]>>,
      <<defaultAssets[1],
        [defaultAssets[7] EXCEPT !.return = D(10, 1),
                                 !.volatility = D(3, 10),
                                 !.drawdownImpact = D(2, 1),
                                 !.crisisSensitivity = D(2, 1)]>> }

\* The component as first shown (lines 121-150), risk and volatility off,
\* with and without drag.
EngineDefaults ==
    /\ initialAmount = defaultInitialAmount
    /\ years = defaultYears
    /\ \E d \in EngineDrags :
          annualFees = d[1] /\ inflationRate = d[2]
    /\ enableRisk = defaultEnableRisk
    /\ crisisType \in {defaultCrisisType, "RISK_OFF"}
    /\ drawdown = defaultDrawdown
    /\ recoveryYears = defaultRecoveryYears
    /\ recoveryType = defaultRecoveryType
    /\ enableVolatility = defaultEnableVolatility
    /\ volatilityLevel = defaultVolatilityLevel
    /\ randomSeedBase = defaultRandomSeedBase
    /\ assets = defaultAssets

EngineBounded ==
    /\ initialAmount \in EngineAmounts
    /\ years \in 1 .. MaxYears
    /\ \E d \in EngineDrags :
          annualFees = d[1] /\ inflationRate = d[2]
    /\ \E r \in EngineRisks :
          /\ enableRisk = r[1] /\ crisisType = r[2] /\ drawdown = r[3]
          /\ recoveryYears = r[4] /\ recoveryType = r[5]
    /\ \E v \in EngineVolatilities :
          /\ enableVolatility = v[1] /\ volatilityLevel = v[2]
          /\ randomSeedBase = v[3]
    /\ assets \in EngineAssets

EngineInit ==
    /\ EngineBounded \/ EngineDefaults
    /\ selectedPreset = ""
    /\ view = NotRendered
    /\ rngState = randomSeedBase
    /\ lastOp = NoOp
    /\ nOps = 0
    /\ kept = NotKept
    /\ inserted = KeyOrder(assets)
    /\ memo = [set |-> FALSE]

EngineNext == render

EngineSpec == EngineInit /\ [][EngineNext]_vars

---------------------------------------------------------------------------
(* Properties of the pipeline *)

ScenarioAssets == {i \in DOMAIN assets : ~assets[i].isBaseline}

BaselineAssets == {i \in DOMAIN assets : assets[i].isBaseline}

\* C1 as claimed: the baseline asset's value equals initialAmount in every
\* year of the returned trajectory.
C1_BaselineEqualsInitialAmount ==
    view.rendered =>
       \A i \in BaselineAssets, y \in 0 .. years :
          view.data[y][assets[i].name] = Fin(initialAmount)

\* C1 as amended: the baseline asset's value equals initialAmount rounded to
\* two decimals in every year, whatever the scenario configuration; the
\* drag, crisis and volatility stages never change it.
C1_BaselineFlat ==
    view.rendered =>
       \A i \in BaselineAssets, y \in 0 .. years :
          view.data[y][assets[i].name] = ToFixed2(Fin(initialAmount))

\* C1 witness: a run with drag, an active crisis and volatility, on an
\* amount that has more than two decimals.
C1_Witness ==
    /\ view.rendered
    /\ crisisActive /\ enableVolatility /\ drawdown > 0
    /\ combinedAnnualDrag > 0
    /\ initialAmount = 12345678
    /\ BaselineAssets # {}
    /\ view.data[years][BaselineName] = Fin(12345700)

\* C2 as claimed: with enableRisk = FALSE the returned value of every asset
\* that is not the baseline is, in every year y, the baseline value of year y
\* divided by (1 + (annualFees + inflationRate)/100)^y.
C2_RiskOffIsDragOnly ==
    view.rendered /\ ~enableRisk =>
       \A i \in ScenarioAssets, y \in 0 .. years :
          view.data[y][assets[i].name]
             = Dragged(baselineData[y][assets[i].name], y)

\* C2 as amended: with enableRisk = FALSE the crisis stage changes nothing,
\* whatever crisisType is: with enableVolatility = FALSE the returned value
\* is the drag-adjusted baseline value; with enableVolatility = TRUE the
\* volatility stage still runs, and for y >= 1 the value is the drag-adjusted
\* value times (1 + randomFactors[name][y]), rounded to two decimals.
C2_RiskOffSkipsCrisis ==
    view.rendered /\ ~enableRisk =>
       \A i \in ScenarioAssets, y \in 0 .. years :
          LET name == assets[i].name
              dragged == Dragged(baselineData[y][name], y)
          IN  view.data[y][name]
                 = IF enableVolatility /\ y >= 1
                   THEN ToFixed2(NMul(dragged,
                                      NAdd(Fin(SCALE), Factor(name, y))))
                   ELSE dragged

\* C2 witness: risk switched off with a crisis type still chosen, no
\* volatility, and a drag that has lowered the last year's value.
C2_Witness ==
    /\ view.rendered
    /\ ~enableRisk /\ crisisType = "RISK_OFF" /\ ~enableVolatility
    /\ \E i \in ScenarioAssets :
          NLt(view.data[years][assets[i].name],
              baselineData[years][assets[i].name])

\* C3 as claimed: with the crisis model active the returned value of every
\* asset that is not the baseline never exceeds recoveryTarget[y], for y in
\* 2..years, whatever enableVolatility, volatilityLevel and the seed are.
C3_NeverAboveTarget ==
    view.rendered /\ crisisActive =>
       \A i \in ScenarioAssets, y \in 2 .. years :
          ~NGt(view.data[y][assets[i].name], recoveryTarget(assets[i], y))

\* C3 as amended: with the crisis model active and enableVolatility = FALSE
\* the returned value never exceeds recoveryTarget[y], for y in 2..years,
\* inside the recovery window and after it.  (With enableVolatility = TRUE
\* the capped value is then multiplied by 1 + randomFactors[name][y].)
C3_NeverAboveTargetWithoutVolatility ==
    view.rendered /\ crisisActive /\ ~enableVolatility =>
       \A i \in ScenarioAssets, y \in 2 .. years :
          /\ IsFin(view.data[y][assets[i].name])
          /\ ~NGt(view.data[y][assets[i].name], recoveryTarget(assets[i], y))

\* C3 witness: a year after the recovery window in which growth at the
\* reduced return would have passed the target, and the value is the target;
\* and a year inside the window.
C3_Witness ==
    /\ view.rendered /\ crisisActive /\ ~enableVolatility
    /\ recoveryYears = D(2, 1) /\ years = 4
    /\ \E i \in ScenarioAssets :
          LET a == assets[i]
              reducedReturn == FMul(a.return, permanentDamageRatio(a))
              grown == NMul(view.data[3][a.name],
                            Fin(SCALE + FDiv(reducedReturn, 100 * SCALE)))
          IN  /\ NGt(grown, recoveryTarget(a, 4))
              /\ view.data[4][a.name] = recoveryTarget(a, 4)
              /\ NLt(view.data[2][a.name], recoveryTarget(a, 2))

\* The parameter ranges the controls declare: drawdown 0..50,
\* crisisSensitivity 0..2, drawdownImpact 0..2, annualFees 0..3,
\* inflationRate 0..10, years 1..30, initialAmount > 0, return >= 0.
InDeclaredRanges ==
    /\ 0 <= drawdown /\ drawdown <= D(50, 1)
    /\ 0 <= annualFees /\ annualFees <= D(3, 1)
    /\ 0 <= inflationRate /\ inflationRate <= D(10, 1)
    /\ 1 <= years /\ years <= MaxYearsAllowed
    /\ initialAmount > 0
    /\ \A i \in DOMAIN assets :
          /\ 0 <= assets[i].crisisSensitivity
          /\ assets[i].crisisSensitivity <= D(2, 1)
          /\ 0 <= assets[i].drawdownImpact
          /\ assets[i].drawdownImpact <= D(2, 1)
          /\ 0 <= assets[i].return

\* C11: for every configuration within the declared parameter ranges, every
\* value of every asset in the returned trajectory is finite and not
\* negative.
C11_FiniteNonNegative ==
    view.rendered /\ InDeclaredRanges =>
       \A y \in 0 .. years, name \in DataKeys :
          /\ IsFin(view.data[y][name])
          /\ view.data[y][name].v >= 0

\* (a + b) mod m for 0 <= a, b < m, formed without leaving 32 bits.
AddMod(a, b, m) == IF a >= m - b THEN a - (m - b) ELSE a + b

\* (a * b) mod m for 0 <= a < m and b >= 0, by doubling.
RECURSIVE MulMod(_, _, _)
MulMod(a, b, m) ==
    IF b = 0 THEN 0
    ELSE LET half == MulMod(a, b \div 2, m)
             twice == AddMod(half, half, m)
         IN  IF b % 2 = 1 THEN AddMod(twice, a, m) ELSE twice

\* C12: every call of the uniform generator sets state' = (state * 16807) mod
\* 2147483647 and returns (state' - 1) / 2147483646 strictly between 0 and 1,
\* for every randomSeedBase: the default 1 and the seeds 0..999999 of the
\* Random Seed button.
C12_UniformInOpenUnitInterval ==
    view.rendered =>
       \A k \in 1 .. NumDraws :
          LET state == SeedAfter(randomSeedBase, k - 1)
              next == seededRandom(state)
          IN  /\ next = MulMod(state % LcgModulus, LcgMultiplier, LcgModulus)
              /\ 0 < next - 1
              /\ next - 1 < UniformDivisor

---------------------------------------------------------------------------
(* The component at work: from the initial state, every handler is         *)
(* followed by the render that recomputes randomFactors, baselineData and  *)
(* scenarioData before the next event is handled.                          *)

\* What the user enters in these behaviours.
MemoYears == {2, 3}
MemoAmounts == {50000 * SCALE}
MemoLevels == {D(5, 10)}
MemoSeeds == {42}
MemoRemovals == {"KMLM (Managed Futures)"}

MemoInit == Init

MemoNext ==
    \/ render
    \/ keep
    \/ view.rendered /\ \E n \in MemoYears : onYearsChange(n)
    \/ view.rendered /\ \E v \in MemoAmounts : onInitialAmountChange(v)
    \/ view.rendered /\ onEnableVolatilityChange
    \/ view.rendered /\ \E v \in MemoLevels : onVolatilityLevelChange(v)
    \/ view.rendered /\ onEnableRiskChange
    \/ view.rendered /\ \E s \in MemoSeeds : onRandomSeedClick(s)
    \/ view.rendered /\ \E name \in MemoRemovals : handleRemoveAsset(name)
    \/ view.rendered /\ handleAddAsset
    \/ view.rendered /\ resetParameters

MemoSpec == MemoInit /\ [][MemoNext]_vars

\* C13: two computations of randomFactors with the same randomSeedBase,
\* years, volatilityLevel and asset map give the same factor arrays for
\* every asset, whatever was edited or computed between them.
C13_FactorsDeterministic ==
    view.rendered /\ kept.set /\ kept.inputs = FactorInputs =>
       view.factors = kept.factors

\* C13 witness: a remembered computation, then a computation with other
\* inputs, then an edit of initialAmount, and a computation with the
\* remembered inputs again whose factors are not all zero.
C13_Witness ==
    /\ view.rendered /\ kept.set /\ kept.between
    /\ kept.inputs = FactorInputs
    /\ initialAmount # defaultInitialAmount
    /\ \E i \in DOMAIN view.factors :
          view.factors[i].arr[1] # Fin(0)

\* The returned trajectory of name never goes down from one year to the next.
NonDecreasing(name) ==
    \A y \in 1 .. years :
       /\ IsFin(view.data[y][name]) /\ IsFin(view.data[y - 1][name])
       /\ view.data[y][name].v >= view.data[y - 1][name].v

\* C14: for every asset that is not the baseline and every configuration the
\* controls allow (initialAmount = 0 included), maxDrawdown is a number >= 0,
\* and it is 0 whenever the asset's trajectory never goes down.
C14_MaxDrawdownNonNegative ==
    view.rendered =>
       \A name \in DOMAIN view.metrics :
          LET maxDrawdown == view.metrics[name].maxDrawdown
          IN  /\ ~IsNaN(maxDrawdown)
              /\ ~NLt(maxDrawdown, Fin(0))
              /\ NonDecreasing(name) => maxDrawdown = Fin(0)

\* C15: with the crisis model active the year-1 value of every asset that is
\* not the baseline is its drag-adjusted year-1 value times
\* 1 - (drawdown/100) * drawdownImpact * crisisSensitivity, for every
\* crisisSensitivity in [0, 2]: crisisSensitivity = 0 gives no shock.
C15_YearOneShock ==
    view.rendered /\ crisisActive =>
       \A i \in ScenarioAssets :
          LET asset == assets[i]
              shock == FMul(FMul(FDiv(drawdown, 100 * SCALE),
                                 asset.drawdownImpact),
                            asset.crisisSensitivity)
          IN  view.beforeVolatility[1][asset.name]
                 = NMul(Dragged(baselineData[1][asset.name], 1),
                        Fin(SCALE - shock))

\* C16: with the crisis model active, permanentDamageRatio of every asset
\* that is not the baseline is, with d = (drawdown/100) * drawdownImpact *
\* crisisSensitivity * 0.4 * crisisSensitivity and the asset's own
\* crisisSensitivity, 0 included: 0.90 - d for RISK_OFF,
\* 0.85 - d * min(1.5 * crisisSensitivity, 1) for RISING_RATES and 0.95 - d
\* for any other type.
C16_PermanentDamageRatio ==
    view.rendered /\ crisisActive =>
       \A i \in ScenarioAssets :
          LET asset == assets[i]
              own == asset.crisisSensitivity
              d == FMul(FMul(FMul(FMul(FDiv(drawdown, 100 * SCALE),
                                       asset.drawdownImpact),
                                  own),
                             D(4, 10)),
                        own)
          IN  permanentDamageRatio(asset)
                 = CASE crisisType = "RISK_OFF" -> D(90, 100) - d
                     [] crisisType = "RISING_RATES" ->
                           D(85, 100) - FMul(d, Min(FMul(D(15, 10), own), SCALE))
                     [] OTHER -> D(95, 100) - d

\* C17: with annualFees = 0, inflationRate = 0, enableRisk = false and
\* enableVolatility = false the value of an asset that is not the baseline
\* is, in every year y, initialAmount compounded y times by
\* 1 + annualReturn/100 and rounded to two decimals; 100000 at 7 percent is
\* 140255.17 in year 5.
C17_PlainCompounding ==
    view.rendered /\ annualFees = 0 /\ inflationRate = 0
                  /\ ~enableRisk /\ ~enableVolatility =>
       \A i \in ScenarioAssets, y \in 0 .. years :
          /\ view.data[y][assets[i].name]
                = ToFixed2(Fin(Compound(initialAmount, assets[i].return, y)))
          /\ initialAmount = 100000 * SCALE /\ assets[i].return = D(7, 1)
                /\ y = 5
                => view.data[y][assets[i].name] = Fin(140255 * SCALE + D(17, 100))

C17_Witness ==
    /\ view.rendered /\ annualFees = 0 /\ inflationRate = 0
    /\ ~enableRisk /\ ~enableVolatility
    /\ initialAmount = 100000 * SCALE /\ years = 5
    /\ crisisType # "NONE"
    /\ \E i \in ScenarioAssets :
          /\ assets[i].return = D(7, 1)
          /\ view.data[5][assets[i].name] = Fin(140255 * SCALE + D(17, 100))

\* C18 as claimed: the trajectory has exactly years + 1 records, each record
\* has a value for every asset name of the asset map, and the year-0 value
\* of every asset equals initialAmount whatever the scenario configuration.
C18_ShapeAndYearZero ==
    view.rendered =>
       /\ DOMAIN view.data = 0 .. years
       /\ \A y \in 0 .. years : Keys(assets) \subseteq DOMAIN view.data[y]
       /\ \A name \in Keys(assets) : view.data[0][name] = Fin(initialAmount)

\* C18 as amended: the same, the year-0 value of every asset being
\* initialAmount rounded to two decimals.
C18_ShapeAndRoundedYearZero ==
    view.rendered =>
       /\ DOMAIN view.data = 0 .. years
       /\ \A y \in 0 .. years : Keys(assets) \subseteq DOMAIN view.data[y]
       /\ \A name \in Keys(assets) :
             view.data[0][name] = ToFixed2(Fin(initialAmount))

C18_Witness ==
    /\ view.rendered /\ crisisActive /\ enableVolatility
    /\ annualFees > 0 /\ volatilityLevel > 0 /\ randomSeedBase # 0
    /\ Len(assets) = 3 /\ years >= 2
    /\ ToFixed2(Fin(initialAmount)) # Fin(initialAmount)
    /\ \A i \in ScenarioAssets :
          /\ view.data[0][assets[i].name] = ToFixed2(Fin(initialAmount))
          /\ view.data[1][assets[i].name] # view.data[0][assets[i].name]
          /\ view.factors[i].arr[1] # Fin(0)

\* C19: with the crisis model active and enableVolatility = FALSE, the value
\* the crisis stage writes for an asset that is not the baseline is, in every
\* year y of 2..years, at most recoveryTarget[y]: in the recovery window
\* (y <= recoveryYears + 1) it is the smaller of the interpolated value and
\* the target, and after the window it is the value of year y - 1 grown at
\* reducedReturn, or the target when the grown value exceeds it.
C19_CrisisStageAtMostTarget ==
    view.rendered /\ crisisActive /\ ~enableVolatility =>
       \A i \in ScenarioAssets, y \in 2 .. years :
          LET a == assets[i]
              target == recoveryTarget(a, y)
              value == view.beforeVolatility[y][a.name]
              drawdownValue == view.beforeVolatility[1][a.name]
              interpolated ==
                  NAdd(drawdownValue,
                       NMul(NSub(target, drawdownValue),
                            Fin(recoveryFactor(FDiv((y - 1) * SCALE,
                                                    recoveryYears)))))
              reducedReturn == FMul(a.return, permanentDamageRatio(a))
              grown == NMul(view.beforeVolatility[y - 1][a.name],
                            Fin(SCALE + FDiv(reducedReturn, 100 * SCALE)))
          IN  /\ IsFin(value) /\ IsFin(target) /\ value.v <= target.v
              /\ view.data[y][a.name] = value
              /\ IF y * SCALE <= recoveryYears + SCALE
                 THEN value = IF NLt(target, interpolated)
                               THEN target ELSE interpolated
                 ELSE value = IF NGt(grown, target) THEN target ELSE grown

\* C19 witness: a year inside the recovery window in which the interpolated
\* value is above the target and the value written is the target.
C19_Witness ==
    /\ view.rendered /\ crisisActive /\ ~enableVolatility
    /\ \E i \in ScenarioAssets, y \in 2 .. years :
          LET a == assets[i]
              target == recoveryTarget(a, y)
              drawdownValue == view.beforeVolatility[1][a.name]
              interpolated ==
                  NAdd(drawdownValue,
                       NMul(NSub(target, drawdownValue),
                            Fin(recoveryFactor(FDiv((y - 1) * SCALE,
                                                    recoveryYears)))))
          IN  /\ y * SCALE <= recoveryYears + SCALE
              /\ NGt(interpolated, target)
              /\ view.beforeVolatility[y][a.name] = target
              /\ target.v > 0

\* C20: the crisis stage changes nothing unless enableRisk is true and
\* crisisType is not NONE: with enableRisk = TRUE and crisisType = NONE, and
\* with enableRisk = FALSE and a crisis type chosen, the trajectory before the
\* volatility stage is the baseline trajectory, divided by
\* (1 + combinedAnnualDrag)^y in the years 1..years of the assets that are
\* not the baseline.
C20_NoCrisisIsDragAdjustedBaseline ==
    view.rendered /\ ~(enableRisk /\ crisisType # "NONE") =>
       \A y \in 0 .. years, name \in DataKeys :
          view.beforeVolatility[y][name]
             = IF y >= 1 /\ IsScenarioAsset(name)
               THEN NDiv(baselineData[y][name],
                         Fin(FPow(SCALE + combinedAnnualDrag, y)))
               ELSE baselineData[y][name]

\* C20 witness: risk on with crisis type NONE and a drawdown set, drag and
\* volatility on, and the year-2 value of an asset is its drag-adjusted
\* baseline, below the baseline itself.
C20_Witness ==
    /\ view.rendered /\ enableRisk /\ crisisType = "NONE" /\ drawdown > 0
    /\ enableVolatility /\ combinedAnnualDrag > 0 /\ years >= 2
    /\ \E i \in ScenarioAssets :
          /\ view.beforeVolatility[2][assets[i].name]
                = Dragged(baselineData[2][assets[i].name], 2)
          /\ NLt(view.beforeVolatility[2][assets[i].name],
                 baselineData[2][assets[i].name])
          /\ assets[i].drawdownImpact > 0

---------------------------------------------------------------------------
(* The asset table in use: rows are added, renamed and removed, and each   *)
(* event is followed by the render that recomputes randomFactors.          *)

\* The rows renamed are two defaults and "7" itself, the names typed are two
\* array indices and a plain name; one default row is removed and years
\* changes to 2.
OrderNext ==
    \/ render
    \/ view.rendered /\ handleAddAsset
    \/ view.rendered /\
          \E name \in {"KMLM (Managed Futures)", "VUG (Large-Cap Growth)",
                        "7"} \cap Keys(assets),
             newName \in {"7", "12", "Gold"} :
                onNameChange(name, newName)
    \/ view.rendered /\ handleRemoveAsset("BIL (Short-Term Treasuries)")
    \/ view.rendered /\ onYearsChange(2)

OrderSpec == Init /\ [][OrderNext]_vars

\* C21: the random stream is consumed in asset insertion order.  The baseline
\* gets years + 1 zeros; the k-th (k from 0) of the other assets, in
\* insertion order, gets the normal deviates k*(years+1) .. (k+1)*(years+1)-1
\* of the stream started at randomSeedBase, each times its volatility and
\* volatilityLevel, a deviate advancing the generator by two uniform steps.
C21_StreamInInsertionOrder ==
    view.rendered =>
       \A i \in DOMAIN view.factors :
          LET name == view.factors[i].name
              arr == view.factors[i].arr
              \* the assets that are not the baseline, in insertion order
              InsertedScenarioAssets == SelectSeq(inserted, IsScenarioAsset)
              \* the place (from 0) of the asset among them
              k == (CHOOSE j \in DOMAIN InsertedScenarioAssets :
                       InsertedScenarioAssets[j] = name) - 1
              \* the n-th normal deviate (n from 0) of the stream started
              \* at randomSeedBase: each takes two calls of seededRandom
              Deviate(n) ==
                  normalRandom(SeedAfter(randomSeedBase, 2 * n)).value
          IN  /\ Len(arr) = years + 1
              /\ \A y \in 0 .. years :
                    arr[y + 1] =
                       IF IsScenarioAsset(name)
                       THEN NMul(NMul(Deviate(k * (years + 1) + y),
                                      Fin(Get(assets, name).volatility)),
                                 Fin(volatilityLevel))
                       ELSE Fin(0)

---------------------------------------------------------------------------
(* The whole component in use: every control changes its input, and each   *)
(* event is followed by the render in which the three hooks run.           *)

\* The user enters one new value in each input, edits the fields of one
\* asset, removes another and renames a third.
AppNext ==
    \/ render
    \/ view.rendered /\ onInitialAmountChange(50000 * SCALE)
    \/ view.rendered /\ onYearsChange(3)
    \/ view.rendered /\ onAnnualFeesChange(D(15, 10))
    \/ view.rendered /\ onInflationRateChange(0)
    \/ view.rendered /\ onEnableRiskChange
    \/ view.rendered /\ onCrisisTypeChange("RISK_OFF")
    \/ view.rendered /\ onRandomSeedClick(42)
    \/ view.rendered /\ onDrawdownChange(D(20, 1))
    \/ view.rendered /\ onRecoveryTypeChange("U_SHAPED")
    \/ view.rendered /\ onRecoveryYearsChange(D(2, 1))
    \/ view.rendered /\ onEnableVolatilityChange
    \/ view.rendered /\ onVolatilityLevelChange(D(5, 10))
    \/ view.rendered /\ applyScenarioPreset("Mild Recession")
    \/ view.rendered /\ resetParameters
    \/ view.rendered /\
          \E edit \in {<<"return", D(10, 1)>>, <<"volatility", D(5, 100)>>,
                        <<"drawdownImpact", D(2, 1)>>,
                        <<"crisisSensitivity", D(2, 1)>>,
                        <<"color", "#123456">>} :
             handleAssetChange("BIL (Short-Term Treasuries)", edit[1], edit[2])
    \/ view.rendered /\ handleAddAsset
    \/ view.rendered /\ handleRemoveAsset("KMLM (Managed Futures)")
    \/ view.rendered /\ onNameChange("VUG (Large-Cap Growth)", "Gold")

AppSpec == Init /\ [][AppNext]_vars

\* C22: after every change of an input (a field of the configuration, or an
\* add, rename, field edit or remove on the asset map) and the render that
\* follows it, the trajectory and the metrics handed to the renderer are
\* those of the whole pipeline on the current inputs: the baselineData and
\* randomFactors the hooks hold are those computed from the current inputs,
\* and scenarioData is the drag, crisis, volatility and metrics stages
\* applied to them.
C22_NothingStaleShown ==
    view.rendered =>
       /\ memo.baseline = baselineData
       /\ memo.factors = randomFactors
       /\ view.data = scenarioData
       /\ view.metrics = summaryMetrics(scenarioData)

\* C22 witness: the fees changed last, with volatility on and two changes
\* before it; baselineData and randomFactors were computed before that change
\* and the trajectory shown carries the new drag.
C22_Witness ==
    /\ view.rendered /\ lastOp.op = "annualFees" /\ nOps = 3
    /\ annualFees # initialAnnualFees /\ enableVolatility
    /\ initialAmount # defaultInitialAmount
    /\ view.data = scenarioData
    /\ \E i \in ScenarioAssets :
          NLt(view.beforeVolatility[1][assets[i].name],
              NDiv(baselineData[1][assets[i].name],
                   Fin(SCALE + FDiv(initialInflationRate, 100 * SCALE))))

---------------------------------------------------------------------------
(* IEEE 754 double precision.  The numbers of the source are doubles: each *)
(* +, -, * and / gives the double nearest to the exact result, a tie going *)
(* to the even mantissa.  A natural number of any size is the sequence of  *)
(* its digits in base LimbBase, lowest first; a finite double is a sign s, *)
(* a mantissa m of exactly 53 bits in four digits (or no digit for zero)   *)
(* and an exponent e, and stands for (-1)^s * m * 2^e.                     *)

LimbBase == 2 ^ 15

\* the number of binary digits of x
BBitLen(x) ==
    LET RECURSIVE bits(_)
        bits(n) == IF n = 0 THEN 0 ELSE 1 + bits(n \div 2)
        RECURSIVE top(_)
        top(i) == IF i = 0 THEN 0
                  ELSE IF x[i] = 0 THEN top(i - 1)
                  ELSE 15 * (i - 1) + bits(x[i])
    IN  top(Len(x))

\* -1, 0 or 1 as x is below, equal to or above y
BCmp(x, y) ==
    LET limb(z, i) == IF i <= Len(z) THEN z[i] ELSE 0
        RECURSIVE cmp(_)
        cmp(i) == IF i = 0 THEN 0
                  ELSE IF limb(x, i) < limb(y, i) THEN -1
                  ELSE IF limb(x, i) > limb(y, i) THEN 1
                  ELSE cmp(i - 1)
    IN  cmp(Max(Len(x), Len(y)))

BAdd(x, y) ==
    LET limb(z, i) == IF i <= Len(z) THEN z[i] ELSE 0
        RECURSIVE add(_, _)
        add(i, carry) ==
            IF i > Max(Len(x), Len(y))
            THEN IF carry = 0 THEN <<>> ELSE <<carry>>
            ELSE <<(limb(x, i) + limb(y, i) + carry) % LimbBase>>
                 \o add(i + 1, (limb(x, i) + limb(y, i) + carry) \div LimbBase)
    IN  add(1, 0)

BMul(x, y) ==
    LET \* x * k from digit i on, for a digit k
        RECURSIVE byDigit(_, _, _)
        byDigit(k, i, carry) ==
            IF i > Len(x)
            THEN IF carry = 0 THEN <<>> ELSE <<carry>>
            ELSE <<(x[i] * k + carry) % LimbBase>>
                 \o byDigit(k, i + 1, (x[i] * k + carry) \div LimbBase)
        RECURSIVE from(_)
        from(i) ==
            IF i > Len(y) THEN <<>>
            ELSE BAdd([j \in 1 .. i - 1 |-> 0] \o byDigit(y[i], 1, 0),
                      from(i + 1))
    IN  from(1)

\* quotient q and remainder r of x by d, for 0 < d <= LimbBase
BDivSmall(x, d) ==
    LET RECURSIVE div(_, _)
        div(i, r) ==
            IF i = 0 THEN [q |-> <<>>, r |-> r]
            ELSE CHOOSE res \in
                    { [q |-> Append(rest.q, (r * LimbBase + x[i]) \div d),
                       r |-> rest.r] :
                      rest \in {div(i - 1, (r * LimbBase + x[i]) % d)} } : TRUE
    IN  div(Len(x), 0)

\* x * 2^n, or x \div 2^(-n) for a negative n
BShift(x, n) ==
    IF n >= 0
    THEN BMul(x, [i \in 1 .. n \div 15 + 1 |->
                     IF i = n \div 15 + 1 THEN 2 ^ (n % 15) ELSE 0])
    ELSE IF (-n) \div 15 >= Len(x) THEN <<>>
    ELSE BDivSmall(SubSeq(x, (-n) \div 15 + 1, Len(x)), 2 ^ ((-n) % 15)).q

\* The double nearest to (-1)^s * (M + f) * 2^e for the natural number M and
\* 0 <= f < 1, where sticky says that f > 0 (and then M has more than 53
\* bits).
DRound(s, natural, e, sticky) ==
    CHOOSE res \in
        { IF len = 0 THEN [s |-> 0, m |-> <<>>, e |-> 0]
          ELSE IF len <= 53
          THEN [s |-> s, m |-> SubSeq(BShift(M, 53 - len), 1, 4),
                e |-> e + len - 53]
          ELSE CHOOSE r \in
                  { IF BBitLen(m) > 53
                    THEN [s |-> s, m |-> SubSeq(BShift(m, -1), 1, 4),
                          e |-> e + len - 53 + 1]
                    ELSE [s |-> s, m |-> SubSeq(m, 1, 4),
                          e |-> e + len - 53] :
                    m \in { IF \/ half > 0
                               \/ half = 0 /\ (sticky \/ q[1] % 2 = 1)
                            THEN BAdd(q, <<1>>) ELSE q :
                            q \in {BShift(M, 53 - len)},
                            half \in {BCmp(M, BAdd(
                                BShift(BShift(M, 53 - len), len - 53),
                                BShift(<<1>>, len - 54)))} } } : TRUE :
          M \in {natural}, len \in {BBitLen(natural)} } : TRUE

\* a + b, and whether the sum is exact
DSum(a, b) ==
    LET \* X - Y for X >= Y
        minus(X, Y) ==
            LET RECURSIVE sub(_, _)
                sub(i, borrow) ==
                    IF i > Len(X) THEN <<>>
                    ELSE LET d == X[i] - borrow
                                  - (IF i <= Len(Y) THEN Y[i] ELSE 0)
                         IN  IF d < 0
                             THEN <<d + LimbBase>> \o sub(i + 1, 1)
                             ELSE <<d>> \o sub(i + 1, 0)
            IN  sub(1, 0)
        exact(M) ==
            \/ BBitLen(M) <= 53
            \/ BCmp(BShift(BShift(M, 53 - BBitLen(M)), BBitLen(M) - 53),
                    M) = 0
    IN  CHOOSE res \in
            { IF x.m = <<>> THEN [value |-> y, exact |-> TRUE]
              ELSE IF y.m = <<>> THEN [value |-> x, exact |-> TRUE]
              ELSE IF x.e - y.e > 64 THEN [value |-> x, exact |-> FALSE]
              ELSE IF y.e - x.e > 64 THEN [value |-> y, exact |-> FALSE]
              ELSE CHOOSE sum \in
                      { [value |-> DRound(IF x.s = y.s \/ BCmp(X, Y) >= 0
                                          THEN x.s ELSE y.s,
                                          M, Min(x.e, y.e), FALSE),
                         exact |-> exact(M)] :
                        M \in { IF x.s = y.s THEN BAdd(X, Y)
                                ELSE IF BCmp(X, Y) >= 0 THEN minus(X, Y)
                                ELSE minus(Y, X) :
                                X \in {BShift(x.m, x.e - Min(x.e, y.e))},
                                Y \in {BShift(y.m, y.e - Min(x.e, y.e))} },
                        X \in {BShift(x.m, x.e - Min(x.e, y.e))},
                        Y \in {BShift(y.m, y.e - Min(x.e, y.e))} } : TRUE :
              x \in {a}, y \in {b} } : TRUE

DMul(a, b) ==
    CHOOSE r \in
        { DRound(IF x.s = y.s THEN 0 ELSE 1, BMul(x.m, y.m), x.e + y.e,
                 FALSE) : x \in {a}, y \in {b} } : TRUE

\* a / b for a divisor b that is a whole number from 1 to LimbBase: every
\* division of the engine is by 100, by the whole recoveryYears or by
\* Math.pow(1, y) = 1
DDiv(a, b) ==
    CHOOSE r \in
        { DRound(x.s, res.q, x.e - 64, res.r # 0) :
          x \in {a},
          res \in { BDivSmall(BShift(a.m, 64), n[1] + LimbBase * n[2]) :
                    n \in {BShift(b.m, b.e) \o <<0, 0>>} } } : TRUE

\* The double of the decimal literal v / SCALE of the source: the defaults
\* and the values the inputs give have at most four decimals.
DLit(v) ==
    LET RECURSIVE digits(_)
        digits(n) == IF n = 0 THEN <<>>
                     ELSE <<n % LimbBase>> \o digits(n \div LimbBase)
    IN  CHOOSE r \in
            { DRound(IF v < 0 THEN 1 ELSE 0, res.q, -64, res.r # 0) :
              res \in {BDivSmall(BShift(digits(Abs(v)), 64), SCALE)} } : TRUE

\* parseFloat(x.toFixed(2)): the hundredths nearest to the exact value of
\* x, a half going away from zero, then the double nearest to that decimal
DToFixed2(a) ==
    LET hundredths(x) ==
            CHOOSE n \in
                { IF x.e >= 0 THEN BShift(P, x.e)
                  ELSE IF BCmp(P, BAdd(BShift(q, -x.e),
                                       BShift(<<1>>, -x.e - 1))) >= 0
                  THEN BAdd(q, <<1>>)
                  ELSE q :
                  P \in {BMul(x.m, <<100>>)},
                  q \in {BShift(BMul(x.m, <<100>>), Min(x.e, 0))} } : TRUE
    IN  CHOOSE r \in
            { DRound(x.s, res.q, -64, res.r # 0) :
              x \in {a},
              res \in {BDivSmall(BShift(hundredths(a), 64), 100)} } : TRUE

---------------------------------------------------------------------------
(* The crisis block in double precision, for the last year of the recovery *)
(* window of a whole recoveryYears and without fees and inflation: there   *)
(* both calls of Math.pow have base 1, the only base whose power is        *)
(* modelled.                                                               *)

\* Math.pow(base, exponent) for base 1 and a finite exponent
MathPowD(base, exponent) == CASE base = DLit(SCALE) -> DLit(SCALE)

\* recoveryFactorD as it would be if the window ended at half the way.
recoveryFactorD_half(progress) == DLit(D(1, 2))

\* lines 251-257
recoveryFactorD(progress) ==
    MathPowD(progress,
             CASE recoveryType = "V_SHAPED" -> DLit(D(5, 10))
               [] recoveryType = "U_SHAPED" -> DLit(D(15, 10))
               [] OTHER -> DLit(3 * SCALE))

\* Lines 186-190 and 199-263 for one non-baseline asset at the year y =
\* recoveryYears + 1, where progress = 1: the value left in scenario[y][name]
\* with the numbers it is made of.
windowEnd(asset) ==
    LET y == recoveryYears \div SCALE + 1
        one == DLit(SCALE)
        hundred == DLit(100 * SCALE)
        DSub(a, b) == DSum(a, [b EXCEPT !.s = 1 - b.s]).value
        \* Math.min(a, b)
        DMin(a, b) == IF DSub(b, a).s = 1 THEN b ELSE a
        \* value after the loop "value *= 1 + asset.return / 100"
        RECURSIVE Compounded(_)
        Compounded(n) ==
            IF n = 0 THEN DLit(initialAmount)
            ELSE DMul(Compounded(n - 1),
                      DSum(one, DDiv(DLit(asset.return), hundred)).value)
        baseline(n) == DToFixed2(Compounded(n))
        combinedAnnualDragD ==
            DDiv(DSum(DLit(annualFees), DLit(inflationRate)).value, hundred)
        dragged(x, n) ==
            DDiv(x, MathPowD(DSum(one, combinedAnnualDragD).value,
                             DLit(n * SCALE)))
        crisisSensitivity == DLit(crisisSensitivityOf(asset))
        drawdownImpactDecimalD ==
            DMul(DMul(DDiv(DLit(drawdown), hundred),
                      DLit(asset.drawdownImpact)),
                 crisisSensitivity)
        baseDamage == DMul(drawdownImpactDecimalD, DLit(D(4, 10)))
        sensitivityAdjustedDamage == DMul(baseDamage, crisisSensitivity)
        ratesSensitivity == DMin(DMul(DLit(D(15, 10)), crisisSensitivity), one)
        permanentDamageRatioD ==
            CASE crisisType = "RISK_OFF" ->
                    DSub(DLit(D(90, 100)), sensitivityAdjustedDamage)
              [] crisisType = "RISING_RATES" ->
                    DSub(DLit(D(85, 100)),
                         DMul(sensitivityAdjustedDamage, ratesSensitivity))
              [] OTHER -> DSub(DLit(D(95, 100)), sensitivityAdjustedDamage)
        progress == DDiv(DLit((y - 1) * SCALE), DLit(recoveryYears))
    IN  CHOOSE res \in
            { [drawdownValue |-> dv,
               recoveryTarget |-> target,
               difference |-> DSum(target, [dv EXCEPT !.s = 1 - dv.s]),
               value |->
                   DMin(DSum(dv, DMul(DSub(target, dv), factor)).value,
                        target)] :
              dv \in {DMul(dragged(baseline(1), 1),
                           DSub(one, drawdownImpactDecimalD))},
              target \in
                  {DMul(dragged(baseline(y), y), permanentDamageRatioD)},
              factor \in {recoveryFactorD(progress)} } : TRUE

ExactInit ==
    /\ initialAmount \in {10000 * SCALE, 50000 * SCALE, 100000 * SCALE}
    /\ years = defaultYears
    /\ annualFees = 0
    /\ inflationRate = 0
    /\ enableRisk = TRUE
    /\ crisisType \in {"RISK_OFF", "RISING_RATES"}
    /\ drawdown \in {D(10, 1), D(20, 1), D(35, 1), D(47, 1), D(50, 1)}
    /\ recoveryYears \in {D(1, 1), D(2, 1), D(3, 1), D(4, 1)}
    /\ recoveryType \in RecoveryTypes
    /\ enableVolatility = defaultEnableVolatility
    /\ volatilityLevel = defaultVolatilityLevel
    /\ randomSeedBase = defaultRandomSeedBase
    /\ assets = defaultAssets
    /\ selectedPreset = ""
    /\ view = NotRendered
    /\ rngState = randomSeedBase
    /\ lastOp = NoOp
    /\ nOps = 0
    /\ kept = NotKept
    /\ inserted = KeyOrder(assets)
    /\ memo = [set |-> FALSE]

\* The render restricted to the crisis block (line 209), which leaves the
\* last year of the window of every non-baseline asset as windowEnd gives it.
renderWindowEnd ==
    /\ ~view.rendered
    /\ crisisActive
    /\ ~enableVolatility
    /\ recoveryYears % SCALE = 0
    /\ recoveryYears \div SCALE + 1 <= years
    /\ view' = [rendered |-> TRUE,
                windowEnd |-> [i \in {j \in DOMAIN assets :
                                          ~assets[j].isBaseline} |->
                                  windowEnd(assets[i])]]
    /\ UNCHANGED <<config, assets, selectedPreset, rngState, lastOp, nOps,
                   kept, inserted, memo>>

ExactSpec == ExactInit /\ [][renderWindowEnd]_vars

====
